---- MODULE Spec2Model ----
(***************************************************************************)
(* ManchAI: the scene-turn handler (pages/api/scene/turn.ts), its          *)
(* collaborators (directorAgent, mockDirector, mockTTS, elevenTTS,         *)
(* sceneUtils) and the playback / auto-continue logic of the page          *)
(* component (pages/index.tsx, components/DirectionPanel.tsx).             *)
(*                                                                         *)
(* SpecTurn  : a caller that holds a scene (null at first) and posts it    *)
(*             turn after turn to the handler.                             *)
(* SpecLateTurn : the same caller late in a performance (a summary of 800  *)
(*             characters), with replies that carry actor updates.         *)
(* Spec      : the page component driving the same handler.  A state       *)
(*             update, the render that follows it and the effects that     *)
(*             copy state into refs (index.tsx 21-27) are one step; timers,*)
(*             audio events, responses and the user interleave freely.     *)
(* SpecHistory : Spec with the history of stops and failed requests kept.  *)
(* SpecFair  : Spec with the steps of playback delivered in bounded time.  *)
(***************************************************************************)
EXTENDS Integers, Sequences, FiniteSets, TLC

VARIABLES
    \* ---- deployment ----
    env,        \* process.env: OPENAI_API_KEY ("set" | "missing" | "placeholder")
                \* and ELEVENLABS_API_KEY (set or not)
    \* ---- turn handler ----
    held,       \* SpecTurn: scene state the caller holds, Null or the last scene returned
    now,        \* Date.now() as a logical clock, one tick per handler run
    srvIn,      \* req.body.sceneState as it was received by the last run
    srvBody,    \* the same object when the last run ended (in-place writes show here)
    srvRes,     \* the last response: status, sceneState, newLines
    srvDir,     \* what the last run did with the Dialogue Generator
    \* ---- page component (pages/index.tsx), React state ----
    sceneState,             \* useState<SceneState | null>
    isLoading,              \* useState(false)
    isPlaying,              \* useState(false)
    currentlyPlayingLineId, \* useState<string | null>, "" for null
    autoContinue,           \* useState(true)
    \* ---- refs ----
    aborted,                \* playbackAbortRef.current.aborted
    activeAudioRef,         \* << >> for null, else <<loop, index>> of the Audio element
    autoContinueTimeoutRef, \* 0 for null, else the id of a timer
    sceneStateRef,          \* sceneStateRef.current
    isLoadingRef,           \* isLoadingRef.current
    \* ---- pending asynchronous work ----
    requests,   \* fetch('/api/scene/turn') calls not yet answered
    loops,      \* playLinesSequentially invocations, by id
    timers,     \* pending timers of lines 176-189 (held in autoContinueTimeoutRef)
    looseTimers,\* pending timers of lines 327-332 (held nowhere)
    sent,       \* number of turn requests issued
    \* ---- history, written by no line of the code ----
    recording,  \* whether this behaviour keeps the two history variables
    stopped,    \* the user's last act was a stop (the button, or a stop command)
    failed      \* the last turn request failed and none was sent since

srvVars == <<env, held, now, srvIn, srvBody, srvRes, srvDir>>

stateVars == <<sceneState, isLoading, isPlaying, currentlyPlayingLineId, autoContinue>>

refVars == <<aborted, activeAudioRef, autoContinueTimeoutRef, sceneStateRef, isLoadingRef>>

asyncVars == <<requests, loops, timers, looseTimers, sent>>

histVars == <<recording, stopped, failed>>

vars == <<srvVars, stateVars, refVars, asyncVars, histVars>>

----------------------------------------------------------------------------
\* Bounds of the model
MaxTurns == 2         \* handler runs in one behaviour
MaxDirLines == 2       \* line directives in one Dialogue Generator reply
MaxSends == 2          \* turn requests the page issues in a behaviour that plays lines
MaxSilentSends == 3    \* the same, in a deployment that never returns audio

----------------------------------------------------------------------------
\* Generic helpers

Null == [isNull |-> TRUE]
IsNull(s) == "isNull" \in DOMAIN s

----------------------------------------------------------------------------
\* types/scene.ts, lib/sceneUtils.ts

defaultActors ==
    << [id |-> "actor-1", name |-> "Alex",   role |-> "protagonist", language |-> "en",
        voiceId |-> "21m00Tcm4TlvDq8ikWAM", style |-> "dramatic"],
       [id |-> "actor-2", name |-> "Sam",    role |-> "antagonist",  language |-> "en",
        voiceId |-> "pNInz6obpgDQGcFmaJgB", style |-> "neutral"],
       [id |-> "actor-3", name |-> "Jordan", role |-> "supporting",  language |-> "en",
        voiceId |-> "EXAVITQu4vr4xnSDxMaL", style |-> "comedic"] >>

createDefaultScene(t) ==
    [ id        |-> t,
      title     |-> "Untitled Scene",
      genre     |-> "drama",
      setting   |-> "A neutral location",
      logline   |-> "A scene begins.",
      summary   |-> "Initial scene setup. Ready for dialogue.",
      actors    |-> defaultActors,
      lines     |-> << >>,
      createdAt |-> t,
      updatedAt |-> t ]

----------------------------------------------------------------------------
\* User commands.  A command is the text the user typed; the code only ever
\* asks whether its lower-cased form includes one of a few keywords.

ContinueCommand == "Continue the conversation naturally. Have the actors respond to each other and keep the dialogue going."

Keywords(cmd) ==
    CASE cmd = "Make it horror"   -> {"horror"}
      [] cmd = "Add conflict"     -> {}
      [] cmd = "Make them angry"  -> {"angry"}
      [] cmd = "A happy ending"   -> {"happy", "end"}
      [] cmd = "Sam is sad"       -> {"sad"}
      [] cmd = "stop"             -> {"stop"}
      [] cmd = ContinueCommand    -> {}
      [] OTHER                    -> {}

Includes(cmd, kw) == kw \in Keywords(cmd)

----------------------------------------------------------------------------
\* lib/directorAgent.ts

\* The reply of the chat-completion service as runDirectorAgent sees it:
\*   net     : "ok" | "error"                      (fetch resolves / rejects)
\*   status  : "ok" | "not_ok"                     (response.ok)
\*   content : "none" | "json" | "fenced" | "garbage"
\*   body    : the object the content parses to; fields may be absent
\* the same call with the check of lines 467-469 on the parsed reply left out
runDirectorAgentUnvalidated(api) ==
    IF env.OPENAI_API_KEY # "set" \/ api.net = "error" \/ api.status # "ok"
       \/ api.content \in {"none", "garbage"}
    THEN [threw |-> TRUE, fetches |-> IF env.OPENAI_API_KEY # "set" THEN 0 ELSE 1,
          value |-> Null]
    ELSE [threw |-> FALSE, fetches |-> 1, value |-> api.body]

\* the same call without the test of the key (lines 246-250)
runDirectorAgentKeyless(api) ==
    IF api.net = "error" \/ api.status # "ok" \/ api.content \in {"none", "garbage"}
       \/ ~ ("sceneMetadata" \in DOMAIN api.body /\ "newLines" \in DOMAIN api.body)
    THEN [threw |-> TRUE, fetches |-> 1, value |-> Null]
    ELSE [threw |-> FALSE, fetches |-> 1, value |-> api.body]

runDirectorAgent(api) ==
    IF env.OPENAI_API_KEY # "set"
    THEN [threw |-> TRUE, fetches |-> 0, value |-> Null]
    ELSE IF api.net = "error"
    THEN [threw |-> TRUE, fetches |-> 1, value |-> Null]
    ELSE IF api.status # "ok"
    THEN [threw |-> TRUE, fetches |-> 1, value |-> Null]
    ELSE IF api.content = "none"
    THEN [threw |-> TRUE, fetches |-> 1, value |-> Null]
    ELSE IF api.content = "garbage"
    THEN [threw |-> TRUE, fetches |-> 1, value |-> Null]
    ELSE IF ~ ("sceneMetadata" \in DOMAIN api.body /\ "newLines" \in DOMAIN api.body)
    THEN [threw |-> TRUE, fetches |-> 1, value |-> Null]
    ELSE [threw |-> FALSE, fetches |-> 1, value |-> api.body]

convertLanguage(lang) == lang

----------------------------------------------------------------------------
\* lib/elevenTTS.ts, lib/mockTTS.ts

\* Audio references.  AudioData is what synthesizeLine returns for a normal
\* reply ("data:audio/<format>;base64," followed by the encoded bytes),
\* AudioTiny what it returns when the service answers with an empty body.
AudioData == "data:audio/mpeg;base64,<bytes>"
AudioTiny == "data:audio/mpeg;base64,"

\* synthesizeLine(text, voiceId, language), tts.out being what the service
\* does with the k-th call: "ok" | "tiny" | "fail" (network / non-OK reply)
synthesizeLine(tts, k) ==
    IF ~ env.ELEVENLABS_API_KEY THEN [threw |-> TRUE, url |-> ""]
    ELSE IF tts.out[k] = "fail" THEN [threw |-> TRUE, url |-> ""]
    ELSE IF tts.out[k] = "tiny" THEN [threw |-> FALSE, url |-> AudioTiny]
    ELSE [threw |-> FALSE, url |-> AudioData]

generateAudioUrl(lineId, voiceId) ==
    "https://placeholder-audio.example.com/" \o voiceId \o "/" \o lineId \o ".mp3"

FindActor(actors, id) ==
    IF \E i \in 1..Len(actors) : actors[i].id = id
    THEN actors[CHOOSE i \in 1..Len(actors) :
                 actors[i].id = id /\ \A j \in 1..(i-1) : actors[j].id # id]
    ELSE Null

\* new Map(actors.map(a => [a.id, ...])).get(id): the last entry with that id
MapGet(entries, id) ==
    IF \E i \in 1..Len(entries) : entries[i].id = id
    THEN entries[CHOOSE i \in 1..Len(entries) :
                  entries[i].id = id /\ \A j \in (i+1)..Len(entries) : entries[j].id # id]
    ELSE Null

processLinesWithTTS(lines, actors) ==
    [i \in 1..Len(lines) |->
        LET actor == MapGet(actors, lines[i].actorId)
        IN IF IsNull(actor) THEN lines[i]
           ELSE [lines[i] EXCEPT !.audioUrl = generateAudioUrl(lines[i].id, actor.voiceId)]]

----------------------------------------------------------------------------
\* lib/mockDirector.ts

LineId(t, index) == "line-" \o ToString(t) \o "-" \o ToString(index)

MockText(i, actor, nextActor, userCommand) ==
    LET base == CASE i = 0 -> "Hey, " \o nextActor.name \o ", we need to talk."
                  [] i = 1 -> "What's on your mind, " \o actor.name \o "?"
                  [] i = 2 -> "I've been thinking about what you said earlier."
                  [] OTHER -> "Go on, I'm listening."
    IN IF Includes(userCommand, "angry") \/ Includes(userCommand, "mad")
       THEN (IF i = 0 THEN "I'm really upset about this!" ELSE "You have no right to be angry!")
       ELSE IF Includes(userCommand, "happy") \/ Includes(userCommand, "excited")
       THEN (IF i = 0 THEN "This is amazing news!" ELSE "I'm so happy to hear that!")
       ELSE IF Includes(userCommand, "sad")
       THEN (IF i = 0 THEN "I can't believe this happened..." ELSE "I'm sorry you feel that way.")
       ELSE base

\* lines 74-129, numLines being the number drawn at line 83
MockLines(scene, userCommand, currentBeatIndex, numLines, t) ==
    LET actors == scene.actors
        n == Len(actors)
    IN IF n = 0 THEN << >>
       ELSE [k \in 1..numLines |->
               LET i == k - 1
                   actorIndex == i % n
                   actor == actors[actorIndex + 1]
                   nextActor == actors[((actorIndex + 1) % n) + 1]
               IN [ id        |-> LineId(t, i),
                    actorId   |-> actor.id,
                    text      |-> MockText(i, actor, nextActor, userCommand),
                    timestamp |-> <<t, i * 1000>>,
                    beatIndex |-> currentBeatIndex + 1,
                    audioUrl  |-> "" ]]

\* a generator that draws its number of lines from 3, 5
generateMockLinesUpToFive(scene, userCommand, currentBeatIndex, rnd, t) ==
    MockLines(scene, userCommand, currentBeatIndex, 3 + 2 * rnd, t)

\* rnd is Math.floor(Math.random() * 2), t is Date.now()
generateMockLines(scene, userCommand, currentBeatIndex, rnd, t) ==
    MockLines(scene, userCommand, currentBeatIndex, 3 + rnd, t)

----------------------------------------------------------------------------
\* lib/summarizeScene.ts
\*
\* Texts are strings; Len, SubSeq and \o act on them as length, substring
\* and concatenation.  What the regular expressions of lines 47-53 and 83 and
\* the includes('?') of line 78 find in a text is tabulated for the texts
\* that occur here (the directive texts and the fallback generator's texts
\* for the default roster).

\* s.substring(0, n)
Substring(s, n) == IF Len(s) <= n THEN s ELSE SubSeq(s, 1, n)

\* the lower-cased words of a text that one of the regular expressions looks for
Words(text) ==
    CASE text = "You have no right to be angry!"                  -> {"angry"}
      [] text = "I'm so happy to hear that!"                      -> {"happy"}
      [] text = "I'm sorry you feel that way."                    -> {"sorry"}
      [] text = "Hey, Sam, we need to talk."                      -> {"need"}
      [] text = "What's on your mind, Sam?"                       -> {"what"}
      [] text = "I've been thinking about what you said earlier." -> {"what"}
      [] text = "I can't believe this happened..."                -> {"believe"}
      [] OTHER                                                    -> {}

\* line 78: text.includes('?')
IncludesQuestionMark(text) ==
    text \in {"Who is there?", "What's on your mind, Sam?"}

AngerWords    == {"angry", "mad", "furious", "rage", "hate"}
JoyWords      == {"happy", "joy", "excited", "great", "wonderful"}
SorrowWords   == {"sad", "sorry", "regret", "disappointed", "worried"}
QuestionWords == {"question", "why", "what", "how", "confused"}
IntentWords   == {"will", "must", "should", "need", "want", "going", "decided",
                  "think", "believe"}

\* allText.match(/\b(w1|w2|...)\b/), allText being the texts joined by ' '
Matches(lines, words) ==
    \E i \in 1..Len(lines) : Words(lines[i].text) \cap words # {}

\* a classification that looks for the joy words first
toneJoyFirst(recentLines) ==
    IF Matches(recentLines, JoyWords) THEN "positive"
    ELSE IF Matches(recentLines, AngerWords) THEN "tense"
    ELSE IF Matches(recentLines, SorrowWords) THEN "somber"
    ELSE IF Matches(recentLines, QuestionWords) THEN "inquisitive"
    ELSE "neutral"

\* lines 46-55
tone(recentLines) ==
    IF Matches(recentLines, AngerWords) THEN "tense"
    ELSE IF Matches(recentLines, JoyWords) THEN "positive"
    ELSE IF Matches(recentLines, SorrowWords) THEN "somber"
    ELSE IF Matches(recentLines, QuestionWords) THEN "inquisitive"
    ELSE "neutral"

\* lines 97-102
toneDescriptions(t) ==
    CASE t = "tense"       -> "The conversation has become tense."
      [] t = "positive"    -> "The mood is positive."
      [] t = "somber"      -> "The atmosphere is somber."
      [] t = "inquisitive" -> "Questions are being raised."
      [] OTHER             -> ""

\* lines.slice(-10)
LastTen(lines) ==
    IF Len(lines) <= 10 THEN lines ELSE SubSeq(lines, Len(lines) - 9, Len(lines))

\* s.trim().length = 0, for a text whose only white space is the blank
RECURSIVE BlankFrom(_, _)
BlankFrom(s, i) ==
    IF i > Len(s) THEN TRUE
    ELSE IF SubSeq(s, i, i) # " " THEN FALSE
    ELSE BlankFrom(s, i + 1)

IsBlank(s) == BlankFrom(s, 1)

\* lines 115-116: prevSummary.split(/[.!?]+/).filter(s => s.trim().length > 0)[0],
\* "" when there is none; start is where the piece being read begins
RECURSIVE FirstSentenceFrom(_, _, _)
FirstSentenceFrom(s, start, i) ==
    IF i > Len(s)
    THEN (IF start > Len(s) \/ IsBlank(SubSeq(s, start, Len(s)))
          THEN "" ELSE SubSeq(s, start, Len(s)))
    ELSE IF SubSeq(s, i, i) \in {".", "!", "?"}
    THEN (IF start > i - 1 \/ IsBlank(SubSeq(s, start, i - 1))
          THEN FirstSentenceFrom(s, i + 1, i + 1)
          ELSE SubSeq(s, start, i - 1))
    ELSE FirstSentenceFrom(s, start, i + 1)

FirstSentence(s) == FirstSentenceFrom(s, 1, 1)

\* lines 24-31: the number of lines of an actor, and the first of them
LineCount(lines, id) == Cardinality({i \in 1..Len(lines) : lines[i].actorId = id})

FirstLine(lines, id) ==
    CHOOSE i \in 1..Len(lines) :
        lines[i].actorId = id /\ \A j \in 1..(i - 1) : lines[j].actorId # id

\* lines 34-36: does actor a come before actor b when the speakers are sorted
\* by number of lines, largest first?  The sort is stable, so actors with
\* as many lines stay in the order they first spoke.
SortsBefore(lines, a, b) ==
    \/ LineCount(lines, a) > LineCount(lines, b)
    \/ /\ LineCount(lines, a) = LineCount(lines, b)
       /\ FirstLine(lines, a) < FirstLine(lines, b)

\* the speaker at place r of the sorted list
SpeakerAt(lines, ids, r) ==
    CHOOSE id \in ids : Cardinality({other \in ids : SortsBefore(lines, other, id)}) = r - 1

\* lines 34-40: the names of the (at most three) main speakers
SpeakerNames(lines, ids, actors) ==
    [r \in 1..(IF Cardinality(ids) < 3 THEN Cardinality(ids) ELSE 3) |->
        IF IsNull(MapGet(actors, SpeakerAt(lines, ids, r))) THEN "Unknown"
        ELSE MapGet(actors, SpeakerAt(lines, ids, r)).name]

mainSpeakers(recentLines, actors) ==
    SpeakerNames(recentLines,
                 {recentLines[i].actorId : i \in 1..Len(recentLines)}, actors)

\* lines 61-69
SpeakerSentence(names) ==
    IF Len(names) = 0 THEN << >>
    ELSE IF Len(names) = 1
    THEN << names[1] \o " has been speaking." >>
    ELSE IF Len(names) = 2
    THEN << names[1] \o " and " \o names[2] \o " have been in dialogue." >>
    ELSE << names[1] \o ", " \o names[2] \o ", and " \o names[3]
            \o " have been conversing." >>

\* lines 75-88
IsKeyPhrase(text) ==
    \/ IncludesQuestionMark(text)
    \/ Words(text) \cap IntentWords # {}
    \/ Len(text) > 50

\* lines 90-93
Topics(keyPhrases) ==
    IF Len(keyPhrases) = 0 THEN << >>
    ELSE IF Len(keyPhrases) = 1
    THEN << "Recent topics include: " \o Substring(keyPhrases[1], 120) \o "..." >>
    ELSE << "Recent topics include: "
            \o Substring(keyPhrases[1] \o " " \o keyPhrases[2], 120) \o "..." >>

KeyPhraseOf(line) == Substring(line.text, 80)

PhrasesOf(keyLines) == [i \in 1..Len(keyLines) |-> KeyPhraseOf(keyLines[i])]

TopicSentence(recentLines) ==
    Topics(PhrasesOf(SelectSeq(recentLines, LAMBDA line : IsKeyPhrase(line.text))))

\* lines 96-104
ToneSentenceOf(t) == IF t # "neutral" THEN << toneDescriptions(t) >> ELSE << >>

ToneSentence(recentLines) == ToneSentenceOf(tone(recentLines))

\* lines 107-110
BeatSentenceOf(beatCount) ==
    IF beatCount > 1
    THEN << "The conversation has progressed through " \o ToString(beatCount)
            \o " beats." >>
    ELSE << >>

BeatSentence(recentLines) ==
    BeatSentenceOf(Cardinality({recentLines[i].beatIndex : i \in 1..Len(recentLines)}))

\* lines 113-120
ContextSentenceOf(prevContext) ==
    IF prevContext # ""
    THEN << "Building on previous context: " \o Substring(prevContext, 100) \o "..." >>
    ELSE << >>

ContextSentence(prevSummary) ==
    IF IsBlank(prevSummary) THEN << >>
    ELSE ContextSentenceOf(FirstSentence(prevSummary))

\* parts.join(' ')
RECURSIVE Join(_)
Join(parts) ==
    IF Len(parts) = 0 THEN ""
    ELSE IF Len(parts) = 1 THEN parts[1]
    ELSE parts[1] \o " " \o Join(Tail(parts))

\* parts.slice(0, n)
Slice(parts, n) == IF Len(parts) <= n THEN parts ELSE SubSeq(parts, 1, n)

\* lines 58-120: the sentences written about the last ten lines
SentencesAbout(prevSummary, recentLines, actors) ==
    SpeakerSentence(mainSpeakers(recentLines, actors)) \o TopicSentence(recentLines)
    \o ToneSentence(recentLines) \o BeatSentence(recentLines)
    \o ContextSentence(prevSummary)

\* lines 123-125
summaryParts(prevSummary, lines, actors) ==
    Slice(SelectSeq(SentencesAbout(prevSummary, LastTen(lines), actors),
                    LAMBDA part : ~ IsBlank(part)), 5)

\* a summarizer that forgets the previous summary when there are no lines
beginningOnly(prevSummary) == "Scene is beginning."

\* lines 16-18: the result for an empty line sequence
beginning(prevSummary) ==
    IF prevSummary # "" THEN prevSummary ELSE "Scene is beginning."

\* a summary that is prefixed and never cut
ContinuedUncut(prevSummary, finalSummary) ==
    IF ~ IsBlank(prevSummary) /\ Len(finalSummary) > 50
    THEN prevSummary \o " " \o finalSummary
    ELSE IF finalSummary # "" THEN finalSummary
    ELSE "Scene dialogue is progressing."

\* lines 128-134
Continued(prevSummary, finalSummary) ==
    IF ~ IsBlank(prevSummary) /\ Len(finalSummary) > 50
    THEN Substring(prevSummary \o " " \o finalSummary, 800)
    ELSE IF finalSummary # "" THEN finalSummary
    ELSE "Scene dialogue is progressing."

\* summarizeScene(prevSummary, lines, actors)
summarizeScene(prevSummary, lines, actors) ==
    IF Len(lines) = 0 THEN beginning(prevSummary)
    ELSE Continued(prevSummary, Join(summaryParts(prevSummary, lines, actors)))

----------------------------------------------------------------------------
\* pages/api/scene/turn.ts

\* a beat counter that starts every turn from 0
MaxBeatForgotten(lines) == 0

MaxBeat(lines) ==
    IF Len(lines) > 0
    THEN CHOOSE m \in {0} \cup {lines[i].beatIndex : i \in 1..Len(lines)} :
            \A i \in 1..Len(lines) : m >= lines[i].beatIndex /\ m >= 0
    ELSE 0

\* updates that add an actor for every id the roster does not have
ApplyDirectorUpdatesInserting(current, resp) ==
    LET ups == IF "updatedActors" \in DOMAIN resp THEN resp.updatedActors ELSE << >>
        known(u) == \E i \in 1..Len(current.actors) : current.actors[i].id = u.id
        added == SelectSeq(ups, LAMBDA u : ~ known(u))
    IN [current EXCEPT
           !.title = resp.sceneMetadata.title,
           !.genre = resp.sceneMetadata.genre,
           !.setting = resp.sceneMetadata.setting,
           !.logline = resp.sceneMetadata.logline,
           !.actors =
               [i \in 1..Len(current.actors) |->
                   IF IsNull(MapGet(ups, current.actors[i].id)) THEN current.actors[i]
                   ELSE [current.actors[i] EXCEPT
                            !.language = MapGet(ups, current.actors[i].id).language,
                            !.style = MapGet(ups, current.actors[i].id).style]]
               \o [j \in 1..Len(added) |->
                      [id |-> added[j].id, name |-> added[j].id, role |-> "supporting",
                       language |-> added[j].language, voiceId |-> "",
                       style |-> added[j].style]]]

\* Lines 112-137: the writes to currentSceneState (the request's own object
\* when a scene was posted) made before any line directive is looked at.
ApplyDirectorUpdates(current, resp) ==
    LET withMeta == IF "sceneMetadata" \in DOMAIN resp
                    THEN [current EXCEPT !.title = resp.sceneMetadata.title,
                                         !.genre = resp.sceneMetadata.genre,
                                         !.setting = resp.sceneMetadata.setting,
                                         !.logline = resp.sceneMetadata.logline]
                    ELSE current
        ups == IF "updatedActors" \in DOMAIN resp THEN resp.updatedActors ELSE << >>
    IN IF Len(ups) > 0
       THEN [withMeta EXCEPT !.actors =
               [i \in 1..Len(current.actors) |->
                   LET update == MapGet(ups, current.actors[i].id)
                   IN IF IsNull(update) THEN current.actors[i]
                      ELSE [current.actors[i] EXCEPT
                               !.language = convertLanguage(update.language),
                               !.style = update.style]]]
       ELSE withMeta

\* a counter that is incremented after the line is made
RunningBeatAfter(currentBeatIndex, directives, k) ==
    currentBeatIndex + Cardinality({j \in 1..(k - 1) : directives[j].beatDelta = 1})

\* Lines 171-193: the running beat counter after the first k directives
RunningBeat(currentBeatIndex, directives, k) ==
    currentBeatIndex + Cardinality({j \in 1..k : directives[j].beatDelta = 1})

\* a lookup that accepts every directive
ActorKnownUnchecked(actors, directive) == TRUE

\* Lines 178-183: the actor lookup that rejects a directive
ActorKnown(actors, directive) == ~ IsNull(FindActor(actors, directive.actorId))

DirectiveLanguage(d) == IF "language" \in DOMAIN d THEN d.language ELSE ""

\* Line 213: the language looked up by matching actorId and text over ALL directives
LineLanguage(directives, line) ==
    IF \E j \in 1..Len(directives) :
          directives[j].actorId = line.actorId /\ directives[j].text = line.text
    THEN DirectiveLanguage(directives[CHOOSE j \in 1..Len(directives) :
             /\ directives[j].actorId = line.actorId /\ directives[j].text = line.text
             /\ \A h \in 1..(j-1) :
                    ~ (directives[h].actorId = line.actorId /\ directives[h].text = line.text)])
    ELSE ""

\* a fan-in that collects the results in the order the calls settle
PromiseAllAsSettled(results, order) ==
    LET settled == SelectSeq(order, LAMBDA k : k <= Len(results))
    IN [j \in 1..Len(settled) |-> results[settled[j]]]

\* Lines 204 and 230: Promise.all over the calls, which settle in the given
\* order (a permutation of the call numbers); slot k of the array it resolves
\* to is filled when call k settles, and it resolves when no slot is pending.
RECURSIVE Settle(_, _, _, _)
Settle(results, order, j, slots) ==
    IF j > Len(order) THEN slots
    ELSE IF order[j] > Len(results) THEN Settle(results, order, j + 1, slots)
    ELSE Settle(results, order, j + 1, [slots EXCEPT ![order[j]] = results[order[j]]])

PromiseAll(results, order) ==
    Settle(results, order, 1, [k \in 1..Len(results) |-> [pending |-> TRUE]])

\* a handler that works on every directive of the reply
linesToProcessAll(directives) == directives

\* Line 168: directorResponse.newLines.slice(0, 6)
linesToProcess(directives) ==
    IF Len(directives) > 6 THEN SubSeq(directives, 1, 6) ELSE directives

ErrorResponse(code, body, dir) ==
    [status |-> code, body |-> body, dir |-> dir, synth |-> << >>]

\* Lines 84-109
FallbackTurn(current, body, userCommand, currentBeatIndex, dir, rnd, t) ==
    LET newLines == generateMockLines(current, userCommand, currentBeatIndex, rnd, t)
        linesWithAudio == processLinesWithTTS(newLines, current.actors)
        updatedLines == current.lines \o linesWithAudio
        updatedSummary == summarizeScene(current.summary, updatedLines, current.actors)
    IN [ status     |-> 200,
         sceneState |-> [current EXCEPT !.lines = updatedLines,
                                        !.summary = updatedSummary,
                                        !.updatedAt = t],
         newLines   |-> linesWithAudio,
         body       |-> body,
         dir        |-> dir,
         synth      |-> << >> ]

\* Lines 112-258
PrimaryTurn(current0, hadBody, resp, currentBeatIndex, dir, tts, t) ==
    LET current == ApplyDirectorUpdates(current0, resp)
        body == IF hadBody THEN current ELSE Null
        directives == IF "newLines" \in DOMAIN resp THEN resp.newLines ELSE << >>
        n == Len(linesToProcess(directives))
        newLines == [k \in 1..n |->
                       [ id        |-> LineId(t, k - 1),
                         actorId   |-> directives[k].actorId,
                         text      |-> directives[k].text,
                         timestamp |-> <<t, (k - 1) * 1000>>,
                         beatIndex |-> RunningBeat(currentBeatIndex, directives, k),
                         audioUrl  |-> "" ]]
        \* lines 204-230: one entry per new line; called = FALSE when the actor
        \* lookup of line 206 fails and the line is returned as it is
        synth == [k \in 1..n |->
                    LET actor == MapGet(current.actors, newLines[k].actorId)
                        lineLanguage == LineLanguage(directives, newLines[k])
                    IN IF IsNull(actor)
                       THEN [called |-> FALSE, result |-> [threw |-> TRUE, url |-> ""]]
                       ELSE [ called   |-> TRUE,
                              text     |-> newLines[k].text,
                              voiceId  |-> actor.voiceId,
                              language |-> IF lineLanguage # ""
                                           THEN convertLanguage(lineLanguage)
                                           ELSE actor.language,
                              result   |-> synthesizeLine(tts, k) ]]
        linesWithAudio == PromiseAll(
                             [k \in 1..n |->
                                 IF synth[k].result.threw THEN newLines[k]
                                 ELSE [newLines[k] EXCEPT !.audioUrl = synth[k].result.url]],
                             tts.order)
        updatedLines == current.lines \o linesWithAudio
        updatedSummary == summarizeScene(current.summary, updatedLines, current.actors)
    IN IF Len(directives) = 0
       THEN ErrorResponse(500, body, dir)
       ELSE IF \E k \in 1..n : ~ ActorKnown(current.actors, directives[k])
       THEN ErrorResponse(500, body, dir)
       ELSE [ status     |-> 200,
              sceneState |-> [current EXCEPT !.lines = updatedLines,
                                             !.summary = updatedSummary,
                                             !.updatedAt = t],
              newLines   |-> linesWithAudio,
              body       |-> body,
              dir        |-> dir,
              synth      |-> synth ]

\* handler(req, res).  The result carries the response (status, and sceneState
\* and newLines when status is 200), body = req.body.sceneState (posted) as the run
\* left it, dir = the path taken and the number of requests made to the
\* Dialogue Generator, synth = the speech synthesis calls made.
handler(method, posted, userCommand, api, tts, rnd, t) ==
    IF method # "POST" THEN ErrorResponse(405, posted, [path |-> "none", fetches |-> 0])
    ELSE IF userCommand = "" THEN ErrorResponse(400, posted, [path |-> "none", fetches |-> 0])
    ELSE
    LET hadBody == ~ IsNull(posted)
        currentSceneState == IF hadBody THEN posted ELSE createDefaultScene(t)
        currentBeatIndex == IF hadBody THEN MaxBeat(currentSceneState.lines) ELSE 0
        director == runDirectorAgent(api)
    IN IF director.threw
       THEN FallbackTurn(currentSceneState, posted, userCommand, currentBeatIndex,
                         [path |-> "fallback", fetches |-> director.fetches], rnd, t)
       ELSE PrimaryTurn(currentSceneState, hadBody, director.value, currentBeatIndex,
                        [path |-> "primary", fetches |-> director.fetches], tts, t)

----------------------------------------------------------------------------
\* The environment of a handler run: what the two remote services answer.

SomeMetadata ==
    [title |-> "Night Train", genre |-> "horror",
     setting |-> "A running train", logline |-> "Nobody gets off."]

Reply(kind, net, status, content, body) ==
    [kind |-> kind, net |-> net, status |-> status, content |-> content, body |-> body]

\* Every way the Dialogue Generator call fails (directorAgent.ts 246-250, 397-469)
FailingReplies ==
    { Reply("network_error",   "error", "ok",     "none", Null),
      Reply("status_not_ok",   "ok",    "not_ok", "none", Null),
      Reply("empty_content",   "ok",    "ok",     "none", Null),
      Reply("unparseable",     "ok",    "ok",     "garbage", Null),
      Reply("no_metadata",     "ok",    "ok",     "json",
            [newLines |-> << [actorId |-> "actor-1", language |-> "en",
                              text |-> "Who is there?", beatDelta |-> 1] >>]),
      Reply("no_newLines",     "ok",    "ok",     "fenced",
            [sceneMetadata |-> SomeMetadata]) }

\* line directives: one that opens a new beat, one that stays in the beat,
\* one that names an actor no scene has
Directives ==
    { [actorId |-> "actor-1", language |-> "hi", text |-> "Who is there?", beatDelta |-> 1],
      [actorId |-> "actor-1", language |-> "hi", text |-> "Who is there?", beatDelta |-> 0],
      [actorId |-> "ghost",   language |-> "hi", text |-> "Who is there?", beatDelta |-> 0] }

SeqsUpTo(S, n) == UNION { [1..k -> S] : k \in 0..n }

OkReply(ups, ls) ==
    Reply("ok", "ok", "ok", "json",
          [sceneMetadata |-> SomeMetadata, updatedActors |-> ups, newLines |-> ls])

\* well-formed replies: every sequence of at most n directives, and one reply
\* that also updates an actor
OkReplies(n) ==
    { OkReply(<< >>, ls) : ls \in SeqsUpTo(Directives, n) }
    \cup { OkReply(<< [id |-> "actor-2", language |-> "hi", style |-> "whispering"] >>,
                   << CHOOSE d \in Directives : d.actorId = "actor-1" /\ d.beatDelta = 1 >>) }

\* the order in which the calls of a turn settle: first to last, last to first
InOrder == <<1, 2, 3, 4, 5, 6>>
Backwards == <<6, 5, 4, 3, 2, 1>>

AllOk == [out |-> [k \in 1..6 |-> "ok"], order |-> InOrder]

\* what the speech service does with the calls of one turn: every subset of
\* the first three calls failing, the calls settling first to last or last to first
SpeechOutcomes ==
    { [out |-> [k \in 1..6 |-> IF k \in failing THEN "fail" ELSE "ok"],
       order |-> IF 2 \in failing THEN InOrder ELSE Backwards] :
        failing \in SUBSET {1, 2, 3} }

\* a reply with three lines and texts of their own
ThreeDirectives ==
    << [actorId |-> "actor-1", language |-> "en", text |-> "Who is there?", beatDelta |-> 1],
       [actorId |-> "actor-2", language |-> "en", text |-> "Nobody.",       beatDelta |-> 0],
       [actorId |-> "actor-1", language |-> "en", text |-> "Show yourself!", beatDelta |-> 0] >>

\* two directives of one actor with one text and two languages, and a
\* directive that declares no language
TwinDirectives ==
    << [actorId |-> "actor-1", language |-> "hi", text |-> "Who is there?", beatDelta |-> 1],
       [actorId |-> "actor-1", language |-> "en", text |-> "Who is there?", beatDelta |-> 0],
       [actorId |-> "actor-2", text |-> "Nobody.", beatDelta |-> 1] >>

\* actor updates: one for an actor no scene has, one for an actor of the roster
TwoUpdates ==
    << [id |-> "ghost",   language |-> "hi",    style |-> "menacing"],
       [id |-> "actor-2", language |-> "mixed", style |-> "whispering"] >>

\* a reply with seven directives, the last of which names an actor no scene has
SevenDirectives ==
    [k \in 1..7 |->
        [actorId |-> IF k = 7 THEN "ghost" ELSE IF k % 2 = 1 THEN "actor-1" ELSE "actor-2",
         language |-> "en", text |-> "Who is there?", beatDelta |-> IF k = 1 THEN 1 ELSE 0]]

Deployments ==
    [OPENAI_API_KEY : {"set", "missing", "placeholder"}, ELEVENLABS_API_KEY : BOOLEAN]

\* The page component right after it is mounted (index.tsx 8-18)
PageAtRest ==
    /\ sceneState = Null
    /\ isLoading = FALSE
    /\ isPlaying = FALSE
    /\ currentlyPlayingLineId = ""
    /\ autoContinue = TRUE
    /\ aborted = FALSE
    /\ activeAudioRef = << >>
    /\ autoContinueTimeoutRef = 0
    /\ sceneStateRef = Null
    /\ isLoadingRef = FALSE
    /\ requests = {}
    /\ loops = << >>
    /\ timers = {}
    /\ looseTimers = {}
    /\ sent = 0
    /\ stopped = FALSE
    /\ failed = FALSE

----------------------------------------------------------------------------
\* SpecTurn: the caller posts the scene it holds and keeps what comes back.

\* the turns whose Dialogue Generator call fails: every kind of failure, and
\* the other outcomes of the fallback generator (a keyword, a fourth line)
FailingTurns ==
    { <<"Add conflict", api, 0>> : api \in FailingReplies }
    \cup { <<"Make them angry", CHOOSE api \in FailingReplies : api.kind = "network_error", 1>> }
    \cup { <<cmd, CHOOSE api \in FailingReplies : api.kind = "status_not_ok", 0>> :
              cmd \in {"Make it horror", "A happy ending", "Sam is sad"} }

\* the turns whose Dialogue Generator call returns a well-formed reply: every
\* reply of at most n directives with all speech calls succeeding, three lines
\* with every speech outcome, a reply to "Make it horror", seven directives
ReplyingTurns(n) ==
    { <<"Add conflict", api, AllOk>> : api \in OkReplies(n) }
    \cup { <<"Add conflict", OkReply(<< >>, ThreeDirectives), tts>> : tts \in SpeechOutcomes }
    \cup { <<"Make it horror", OkReply(<< >>, << ThreeDirectives[1] >>), AllOk>>,
            <<"Add conflict", OkReply(<< >>, SevenDirectives), AllOk>> }

\* scenes a caller made itself: nobody on stage and nothing said yet
LongSummary ==
    LET ten == "The stage is dark and empty. No one has come in yet, and no one has spoken.  "
    IN ten \o ten \o ten \o ten \o ten \o ten \o ten \o ten \o ten \o ten \o ten

EmptyStage(summary) ==
    [createDefaultScene(0) EXCEPT !.actors = << >>, !.summary = summary]

\* a scene whose summary has grown to the 800 characters it is cut to
FullSummary == Substring(LongSummary, 800)

LateScene == [createDefaultScene(0) EXCEPT !.summary = FullSummary]

CallerScenes == {EmptyStage(""), EmptyStage(LongSummary)}

NoRun == [status |-> 0]

NoDir ==
    [path |-> "none", fetches |-> 0, api |-> "none", userCommand |-> "",
     directives |-> << >>, updates |-> << >>, tts |-> AllOk, synth |-> << >>]

InitTurn ==
    /\ env \in Deployments
    /\ held \in {Null} \cup CallerScenes
    /\ now = 0
    /\ srvIn = Null
    /\ srvBody = Null
    /\ srvRes = NoRun
    /\ srvDir = NoDir
    /\ PageAtRest
    /\ recording = FALSE

Response(r) ==
    IF r.status = 200
    THEN [status |-> 200, sceneState |-> r.sceneState, newLines |-> r.newLines]
    ELSE [status |-> r.status]

\* what a run leaves behind: r is the handler's result
Record(r, userCommand, api, tts) ==
    /\ now' = now + 1
    /\ srvIn' = held
    /\ srvBody' = r.body
    /\ srvRes' = Response(r)
    /\ srvDir' = [path |-> r.dir.path, fetches |-> r.dir.fetches,
                  api |-> IF r.dir.path = "none" THEN "none"
                          ELSE IF env.OPENAI_API_KEY # "set" THEN "no_key"
                          ELSE api.kind,
                  userCommand |-> userCommand,
                  directives |-> IF r.dir.path = "primary" THEN api.body.newLines
                                 ELSE << >>,
                  updates |-> IF /\ r.dir.path = "primary"
                                 /\ "updatedActors" \in DOMAIN api.body
                              THEN api.body.updatedActors
                              ELSE << >>,
                  tts |-> IF r.dir.path = "primary" THEN tts ELSE AllOk,
                  synth |-> r.synth]
    /\ held' = IF r.status = 200 THEN r.sceneState ELSE held
    /\ UNCHANGED <<env, stateVars, refVars, asyncVars, histVars>>

\* One run of the handler on the scene the caller holds
Run(method, userCommand, api, tts, rnd) ==
    /\ now < MaxTurns
    /\ Record(handler(method, held, userCommand, api, tts, rnd, now + 1),
              userCommand, api, tts)

\* A request the handler rejects before doing anything (lines 24-33)
PostBadRequest ==
    \E req \in {<<"GET", "Add conflict">>, <<"POST", "">>} :
        Run(req[1], req[2], CHOOSE api \in FailingReplies : TRUE, AllOk, 0)

\* A turn whose Dialogue Generator call fails
PostTurnDirectorFails ==
    \E turn \in FailingTurns :
        Run("POST", turn[1], turn[2], AllOk, turn[3])

\* A turn whose Dialogue Generator call returns a well-formed reply
PostTurnDirectorReplies ==
    \E turn \in ReplyingTurns(MaxDirLines) :
        Run("POST", turn[1], turn[2], turn[3], 0)

NextTurn == PostBadRequest \/ PostTurnDirectorFails \/ PostTurnDirectorReplies

SpecTurn == InitTurn /\ [][NextTurn]_vars

\* SpecLateTurn: a caller that starts without a scene or late in a
\* performance; the Dialogue Generator fails, or replies with actor updates
\* and with directives that differ in language only.
InitLateTurn ==
    /\ env \in Deployments
    /\ held \in {Null, LateScene}
    /\ now = 0
    /\ srvIn = Null
    /\ srvBody = Null
    /\ srvRes = NoRun
    /\ srvDir = NoDir
    /\ PageAtRest
    /\ recording = FALSE

PostTurnActorUpdates ==
    Run("POST", "Add conflict", OkReply(TwoUpdates, TwinDirectives), AllOk, 0)

NextLateTurn == PostTurnDirectorFails \/ PostTurnActorUpdates

SpecLateTurn == InitLateTurn /\ [][NextLateTurn]_vars

----------------------------------------------------------------------------
\* pages/index.tsx: playLinesSequentially

MinBase64 == 100
DwellMs == 1500

\* line 61: audioUrl.startsWith('data:audio/')
StartsWithDataAudio(url) == url \in {AudioData, AudioTiny}

\* line 70: the length of what follows "base64,"
Base64Length(url) == IF url = AudioData THEN MinBase64 ELSE 0

\* lines 44-76: the line gets an Audio element; otherwise it is only
\* highlighted for DwellMs
Playable(url) ==
    /\ url # ""
    /\ StartsWithDataAudio(url)
    /\ ~ (Base64Length(url) < MinBase64)

\* A playLinesSequentially invocation:
\*   lines    : its argument
\*   idx      : the line the for loop is at (0 before the first)
\*   pc       : "scheduled" (the 100 ms timer of line 321), "dwell" (lines 49, 57,
\*              65, 74), "await" (the promise of line 90), "errdwell" (line 154), "done"
\*   audio    : the Audio element of the line the loop is at
\*              "none" | "created" | "playing" | "paused" | "off" (ended or failed)
\*   capScene, capAuto : sceneState and autoContinue of the render whose closure runs
\*   newLines : data.newLines of the response that started it            (history)
\*   marked   : the ids it passed to setCurrentlyPlayingLineId, in order  (history)
\*   cutoff   : playback was aborted while this loop was at a line      (history)
InProgress(lp) == lp.pc \in {"dwell", "await", "errdwell"}

\* activeAudioRef.current.pause() (lines 199-203 and 261-265)
PauseActive(L) ==
    IF activeAudioRef = << >> THEN L
    ELSE [L EXCEPT ![activeAudioRef[1]].audio =
                       IF @ = "playing" THEN "paused" ELSE @]

NoteAbort(L) ==
    [l \in DOMAIN L |->
        IF InProgress(L[l]) THEN [L[l] EXCEPT !.cutoff = TRUE] ELSE L[l]]

\* clearTimeout(autoContinueTimeoutRef.current)
ClearTimer(T) == {t \in T : t.id # autoContinueTimeoutRef}

Effects(L, audio, lineId, playing, T, ref) ==
    [loops |-> L, activeAudioRef |-> audio, currentlyPlayingLineId |-> lineId,
     isPlaying |-> playing, timers |-> T, autoContinueTimeoutRef |-> ref]

Apply(e) ==
    /\ loops' = e.loops
    /\ activeAudioRef' = e.activeAudioRef
    /\ currentlyPlayingLineId' = e.currentlyPlayingLineId
    /\ isPlaying' = e.isPlaying
    /\ timers' = e.timers
    /\ autoContinueTimeoutRef' = e.autoContinueTimeoutRef

\* lines 163-190, ab being playbackAbortRef.current.aborted
Cleanup(l, L, ab) ==
    IF L[l].capAuto /\ ~ ab
    THEN Effects([L EXCEPT ![l].pc = "done", ![l].audio = "none", ![l].cutoff = FALSE], << >>, "", FALSE,
                 ClearTimer(timers) \cup
                    {[id |-> l, capScene |-> L[l].capScene, capAuto |-> L[l].capAuto,
                      superseded |-> FALSE]},
                 l)
    ELSE Effects([L EXCEPT ![l].pc = "done", ![l].audio = "none", ![l].cutoff = FALSE], << >>, "", FALSE,
                 timers, autoContinueTimeoutRef)

\* lines 37-84 (and 157-160): the for loop arriving at its k-th line
Iterate(l, k, L, ab, playing) ==
    IF k > Len(L[l].lines) \/ ab
    THEN Cleanup(l, L, ab)
    ELSE IF ~ Playable(L[l].lines[k].audioUrl)
    THEN Effects([L EXCEPT ![l].idx = k, ![l].pc = "dwell", ![l].audio = "none",
                           ![l].marked = Append(@, L[l].lines[k].id)],
                 activeAudioRef, L[l].lines[k].id, playing, timers, autoContinueTimeoutRef)
    ELSE Effects([L EXCEPT ![l].idx = k, ![l].pc = "await", ![l].audio = "created",
                           ![l].marked = Append(@, L[l].lines[k].id)],
                 <<l, k>>, L[l].lines[k].id, playing, timers, autoContinueTimeoutRef)

LoopUnchanged ==
    UNCHANGED <<srvVars, sceneState, isLoading, autoContinue, sceneStateRef, isLoadingRef,
                requests, looseTimers, sent, histVars>>

\* lines 321-323 and 32-36: the 100 ms timer fires and playback starts
LoopStart ==
    \E l \in DOMAIN loops :
        /\ loops[l].pc = "scheduled"
        /\ aborted' = FALSE
        /\ Apply(Iterate(l, 1, loops, FALSE, TRUE))
        /\ LoopUnchanged

\* the DwellMs wait of a line without playable audio ends
DwellDone ==
    \E l \in DOMAIN loops :
        /\ loops[l].pc = "dwell"
        /\ Apply(Iterate(l, loops[l].idx + 1, loops, aborted, isPlaying))
        /\ UNCHANGED aborted
        /\ LoopUnchanged

\* lines 130-148: audio.play() is called 100 ms after the element was made
PlayCalled ==
    \E l \in DOMAIN loops, started \in BOOLEAN :
        /\ loops[l].pc = "await"
        /\ loops[l].audio = "created"
        /\ loops' = IF started
                    THEN [loops EXCEPT ![l].audio = "playing"]
                    ELSE [loops EXCEPT ![l].audio = "off", ![l].pc = "errdwell"]
        /\ UNCHANGED <<srvVars, stateVars, refVars, requests, timers, looseTimers, sent,
                       histVars>>

\* lines 108-112: the audio plays to its end
AudioEnded ==
    \E l \in DOMAIN loops :
        /\ loops[l].pc = "await"
        /\ loops[l].audio = "playing"
        /\ Apply(Iterate(l, loops[l].idx + 1,
                         [loops EXCEPT ![l].audio = "off"], aborted, isPlaying))
        /\ UNCHANGED aborted
        /\ LoopUnchanged

\* lines 114-124: the element reports an error
AudioError ==
    \E l \in DOMAIN loops :
        /\ loops[l].pc = "await"
        /\ loops[l].audio \in {"created", "playing"}
        /\ loops' = [loops EXCEPT ![l].audio = "off", ![l].pc = "errdwell"]
        /\ UNCHANGED <<srvVars, stateVars, refVars, requests, timers, looseTimers, sent,
                       histVars>>

\* a page whose wait for a line has no timeout
AudioTimeoutNever == FALSE

\* lines 91-94: 30 s pass without 'ended' or 'error'.  The audio of a line is
\* shorter than that, so this happens to an element that was paused and reset.
AudioTimeout ==
    \E l \in DOMAIN loops :
        /\ loops[l].pc = "await"
        /\ loops[l].audio = "paused"
        /\ loops' = [loops EXCEPT ![l].audio = "off", ![l].pc = "errdwell"]
        /\ UNCHANGED <<srvVars, stateVars, refVars, requests, timers, looseTimers, sent,
                       histVars>>

\* lines 150-160: the wait after a failed line ends
ErrorDwellDone ==
    \E l \in DOMAIN loops :
        /\ loops[l].pc = "errdwell"
        /\ Apply(Iterate(l, loops[l].idx + 1, loops, aborted, isPlaying))
        /\ UNCHANGED aborted
        /\ LoopUnchanged

----------------------------------------------------------------------------
\* pages/index.tsx: stopPlayback, toggleAutoContinue, handleSendDirection

\* a page on which only the word "stop" stops
shouldStopWord(command) == Includes(command, "stop")

\* lines 243-245
shouldStop(command) ==
    Includes(command, "stop") \/ Includes(command, "end") \/ Includes(command, "pause")

\* lines 196-210, T being the pending timers
stopPlayback(T) ==
    /\ aborted' = TRUE
    /\ autoContinue' = FALSE
    /\ loops' = NoteAbort(PauseActive(loops))
    /\ activeAudioRef' = << >>
    /\ timers' = {t \in T : t.id # autoContinueTimeoutRef}
    /\ autoContinueTimeoutRef' = 0
    /\ currentlyPlayingLineId' = ""
    /\ isPlaying' = FALSE

Supersede(T) == {[t EXCEPT !.superseded = TRUE] : t \in T}

\* the longest run of turn requests followed; where failures are recorded
\* the request that comes after a failed one is followed as well
SendLimit ==
    (IF env.OPENAI_API_KEY = "set" /\ ~ env.ELEVENLABS_API_KEY
     THEN MaxSilentSends
     ELSE MaxSends) + (IF failed THEN 1 ELSE 0)

\* lines 223-278: handleSendDirection up to the fetch.  capScene and capAuto
\* are sceneState and autoContinue of the render the function belongs to;
\* by is "user" or the timer that called it; T, LT are the pending timers.
handleSendDirection(command, capScene, capAuto, by, T, LT) ==
    IF shouldStop(command)
    THEN /\ stopPlayback(T)
         /\ looseTimers' = LT
         /\ stopped' = recording
         /\ UNCHANGED <<sceneState, isLoading, sceneStateRef, isLoadingRef, requests, sent,
                        recording, failed>>
    ELSE /\ sent < SendLimit
         /\ timers' = {t \in T : t.id # autoContinueTimeoutRef}
         /\ autoContinueTimeoutRef' = 0
         /\ aborted' = TRUE
         /\ loops' = NoteAbort(PauseActive(loops))
         /\ activeAudioRef' = << >>
         /\ isLoading' = TRUE
         /\ isLoadingRef' = TRUE
         /\ sent' = sent + 1
         /\ requests' = requests \cup
               {[id |-> sent + 1, body |-> capScene, userCommand |-> command,
                 capAuto |-> capAuto, by |-> by]}
         /\ looseTimers' = LT
         /\ stopped' = IF by.kind = "user" THEN FALSE ELSE stopped
         /\ failed' = FALSE
         /\ UNCHANGED <<sceneState, isPlaying, currentlyPlayingLineId, autoContinue,
                        sceneStateRef, recording>>

User == [kind |-> "user", superseded |-> FALSE]

\* a panel that lets the user send while a turn is loading
NotLoadingUnchecked == TRUE

\* DirectionPanel.tsx 32 and 39: !isLoading
NotLoading == ~ isLoading

TypedCommands == {"Add conflict", "stop", "A happy ending"}
QUICK_PROMPTS == {"Add conflict"}

\* DirectionPanel.tsx 30-36: the form is submitted
SubmitCommand ==
    \E command \in TypedCommands :
        /\ NotLoading
        /\ handleSendDirection(command, sceneState, autoContinue, User,
                               Supersede(timers), Supersede(looseTimers))
        /\ UNCHANGED srvVars

\* DirectionPanel.tsx 38-42: a quick prompt is clicked
ClickQuickPrompt ==
    \E prompt \in QUICK_PROMPTS :
        /\ NotLoading
        /\ handleSendDirection(prompt, sceneState, autoContinue, User,
                               Supersede(timers), Supersede(looseTimers))
        /\ UNCHANGED srvVars

\* DirectionPanel.tsx 68-76: the Stop button, rendered while playing or loading
ClickStop ==
    /\ isPlaying \/ isLoading
    /\ stopPlayback(timers)
    /\ stopped' = recording
    /\ UNCHANGED <<srvVars, sceneState, isLoading, sceneStateRef, isLoadingRef,
                   requests, looseTimers, sent, recording, failed>>

\* lines 215-221
toggleAutoContinue ==
    /\ autoContinue' = ~ autoContinue
    /\ timers' = ClearTimer(timers)
    /\ autoContinueTimeoutRef' = 0
    /\ UNCHANGED <<srvVars, sceneState, isLoading, isPlaying, currentlyPlayingLineId,
                   aborted, activeAudioRef, sceneStateRef, isLoadingRef,
                   requests, loops, looseTimers, sent, recording, failed>>
    /\ stopped' = FALSE

\* line 178: the conditions the timer of playLinesSequentially re-checks
MayContinue(capAuto) ==
    capAuto /\ ~ aborted /\ ~ IsNull(sceneStateRef) /\ ~ isLoadingRef

\* line 328: the conditions the timer of the no-audio branch re-checks
MayContinueSilently(capAuto) ==
    capAuto /\ ~ aborted /\ ~ isLoadingRef

\* lines 176-189: the 2 s timer armed at the end of playback fires
AutoContinueTimerFires ==
    \E t \in timers :
        IF MayContinue(t.capAuto)
        THEN /\ handleSendDirection(ContinueCommand, t.capScene, t.capAuto,
                                    [kind |-> "timer", superseded |-> t.superseded],
                                    timers \ {t}, looseTimers)
             /\ UNCHANGED srvVars
        ELSE /\ timers' = timers \ {t}
             /\ UNCHANGED <<srvVars, stateVars, refVars, requests, loops, looseTimers, sent,
                            histVars>>

\* lines 327-332: the 2 s timer armed after a turn without audio fires
LooseTimerFires ==
    \E t \in looseTimers :
        IF MayContinueSilently(t.capAuto)
        THEN /\ handleSendDirection(ContinueCommand, t.capScene, t.capAuto,
                                    [kind |-> "timer", superseded |-> t.superseded],
                                    timers, looseTimers \ {t})
             /\ UNCHANGED srvVars
        ELSE /\ looseTimers' = looseTimers \ {t}
             /\ UNCHANGED <<srvVars, stateVars, refVars, requests, loops, timers, sent,
                            histVars>>

\* What the services answer while the page is used
ThreeLines ==
    << [actorId |-> "actor-1", language |-> "en", text |-> "Who is there?", beatDelta |-> 1],
       [actorId |-> "actor-2", language |-> "en", text |-> "Nobody.",       beatDelta |-> 0],
       [actorId |-> "actor-1", language |-> "en", text |-> "Show yourself!", beatDelta |-> 0] >>

PageReply(ls) ==
    Reply("ok", "ok", "ok", "json",
          [sceneMetadata |-> SomeMetadata, updatedActors |-> << >>, newLines |-> ls])

SecondFails == [out |-> [k \in 1..6 |-> IF k = 2 THEN "fail" ELSE "ok"], order |-> InOrder]

\* a reply with three lines, the second of which gets no audio, and a reply
\* that names an actor the scene does not have
PageEnvironments ==
    { <<PageReply(ThreeLines), SecondFails>>,
      <<PageReply(<< [ThreeLines[1] EXCEPT !.actorId = "ghost"] >>), AllOk>> }

\* no keys at all (every turn is a fallback turn), both keys, no speech key
PageDeployments ==
    { [OPENAI_API_KEY |-> "missing", ELEVENLABS_API_KEY |-> FALSE],
      [OPENAI_API_KEY |-> "set",     ELEVENLABS_API_KEY |-> TRUE],
      [OPENAI_API_KEY |-> "set",     ELEVENLABS_API_KEY |-> FALSE] }

NewLoop(r, data, linesWithAudio) ==
    [ lines |-> linesWithAudio, idx |-> 0, pc |-> "scheduled",
      audio |-> "none", marked |-> << >>,
      capScene |-> r.body, capAuto |-> r.capAuto,
      newLines |-> data.newLines, cutoff |-> FALSE ]

\* lines 286-336 and 340-342: the response data of request r is taken in;
\* linesWithAudio are the lines of data.newLines that have an audioUrl
TakeIn(r, data, linesWithAudio) ==
    /\ requests' = requests \ {r}
    /\ sceneState' = data.sceneState
    /\ sceneStateRef' = data.sceneState
    /\ aborted' = FALSE
    /\ isLoading' = FALSE
    /\ isLoadingRef' = FALSE
    /\ IF Len(data.newLines) > 0 /\ Len(linesWithAudio) > 0
       THEN /\ loops' = (r.id :> NewLoop(r, data, linesWithAudio)) @@ loops
            /\ UNCHANGED looseTimers
       ELSE IF Len(data.newLines) > 0 /\ r.capAuto
       THEN /\ looseTimers' = looseTimers \cup
                   {[id |-> r.id, capScene |-> r.body, capAuto |-> r.capAuto,
                     superseded |-> FALSE]}
            /\ UNCHANGED loops
       ELSE UNCHANGED <<loops, looseTimers>>
    /\ UNCHANGED <<srvVars, isPlaying,
                   currentlyPlayingLineId, autoContinue, activeAudioRef,
                   autoContinueTimeoutRef, timers, sent, histVars>>

Answered(r, data) ==
    /\ data.status = 200
    /\ TakeIn(r, data, SelectSeq(data.newLines, LAMBDA line : line.audioUrl # ""))

\* the response of a turn arrives
ReceiveTurn ==
    \E r \in requests, e \in PageEnvironments :
        Answered(r, handler("POST", r.body, r.userCommand, e[1], e[2], 0, r.id))

\* lines 280-284 and 337-342: the turn fails (error status, or fetch rejects)
ReceiveFailure ==
    \E r \in requests, e \in PageEnvironments, reached \in BOOLEAN :
        LET data == handler("POST", r.body, r.userCommand, e[1], e[2], 0, r.id)
        IN /\ reached => data.status # 200
           /\ requests' = requests \ {r}
           /\ isLoading' = FALSE
           /\ isLoadingRef' = FALSE
           /\ failed' = recording
           /\ UNCHANGED <<srvVars, sceneState, isPlaying,
                          currentlyPlayingLineId, autoContinue, aborted, activeAudioRef,
                          autoContinueTimeoutRef, sceneStateRef, loops, timers,
                          looseTimers, sent, recording, stopped>>

Init ==
    /\ env \in PageDeployments
    /\ held = Null
    /\ now = 0
    /\ srvIn = Null
    /\ srvBody = Null
    /\ srvRes = NoRun
    /\ srvDir = NoDir
    /\ PageAtRest
    /\ recording = FALSE

\* the page, with the history of stops and failures recorded
InitHistory ==
    /\ env \in PageDeployments
    /\ held = Null
    /\ now = 0
    /\ srvIn = Null
    /\ srvBody = Null
    /\ srvRes = NoRun
    /\ srvDir = NoDir
    /\ PageAtRest
    /\ recording = TRUE

Next ==
    \/ SubmitCommand
    \/ ClickQuickPrompt
    \/ ClickStop
    \/ toggleAutoContinue
    \/ ReceiveTurn
    \/ ReceiveFailure
    \/ LoopStart
    \/ DwellDone
    \/ PlayCalled
    \/ AudioEnded
    \/ AudioError
    \/ AudioTimeout
    \/ ErrorDwellDone
    \/ AutoContinueTimerFires
    \/ LooseTimerFires

Spec == Init /\ [][Next]_vars

SpecHistory == InitHistory /\ [][Next]_vars

\* The steps of a playback loop are timers (100 ms, DwellMs, 30 s), the
\* settling of audio.play() and the end of an Audio element that plays a
\* finite data: URI; the browser delivers each of them in bounded time.
PlaybackIsServed ==
    /\ WF_vars(LoopStart)
    /\ WF_vars(DwellDone)
    /\ WF_vars(PlayCalled)
    /\ WF_vars(AudioEnded)
    /\ WF_vars(AudioTimeout)
    /\ WF_vars(ErrorDwellDone)

SpecFair == Spec /\ PlaybackIsServed

----------------------------------------------------------------------------
\* Properties of the turn handler (SpecTurn)

InLines == IF IsNull(srvIn) THEN << >> ELSE srvIn.lines

IsStrictAppend(before, after) ==
    /\ Len(after) > Len(before)
    /\ SubSeq(after, 1, Len(before)) = before

\* C1: a handler run either returns a scene whose lines are the input's
\* lines followed by at least one new line, or it fails and the scene
\* object it was given is as it was received.  (The fallback turn on a
\* scene without actors, which succeeds and appends nothing, is the edge
\* case of C12 and is let through here.)
C1_AppendsOrFailsUntouched ==
    srvRes.status # 0 =>
        \/ /\ srvRes.status = 200
           /\ IsStrictAppend(InLines, srvRes.sceneState.lines)
        \/ /\ srvRes.status = 200
           /\ srvDir.path = "fallback"
           /\ ~ IsNull(srvIn)
           /\ Len(srvIn.actors) = 0
           /\ srvRes.sceneState.lines = InLines
        \/ /\ srvRes.status # 200
           /\ srvBody = srvIn

\* C2: after any sequence of successful turns from a null scene, every
\* line's actorId is the id of an actor of the roster.
C2_LinesReferToRoster ==
    ~ IsNull(held) =>
        \A i \in 1..Len(held.lines) :
            \E j \in 1..Len(held.actors) : held.actors[j].id = held.lines[i].actorId

C2_Witness ==
    /\ srvRes.status = 200
    /\ srvDir.path = "primary"
    /\ ~ IsNull(srvIn)
    /\ Len(srvIn.lines) > 0
    /\ held = srvRes.sceneState

\* C3: after any sequence of successful turns from a null scene, the
\* beatIndex values of the lines never decrease along the array.
C3_BeatsNonDecreasing ==
    ~ IsNull(held) =>
        \A i \in 1..(Len(held.lines) - 1) :
            held.lines[i].beatIndex <= held.lines[i + 1].beatIndex

C3_Witness ==
    /\ srvRes.status = 200
    /\ ~ IsNull(srvIn)
    /\ Len(srvIn.lines) > 0
    /\ \E i \in 1..(Len(held.lines) - 1) :
          held.lines[i].beatIndex < held.lines[i + 1].beatIndex
    /\ \E i \in 1..(Len(held.lines) - 1) :
          held.lines[i].beatIndex = held.lines[i + 1].beatIndex

FailureKinds == {api.kind : api \in FailingReplies}

\* C10: when the Dialogue Generator call fails, the handler asks it no
\* second time, builds the new lines with the fallback generator and
\* answers 200.
C10_FailureFallsBack ==
    srvDir.api \in FailureKinds =>
        /\ srvDir.path = "fallback"
        /\ srvDir.fetches <= 1
        /\ srvRes.status = 200
        /\ LET current == IF IsNull(srvIn) THEN createDefaultScene(now) ELSE srvIn
           IN \E turn \in FailingTurns :
                 srvRes.newLines =
                    processLinesWithTTS(
                        generateMockLines(current, turn[1], MaxBeat(current.lines),
                                          turn[3], now),
                        current.actors)

C10_Witness ==
    /\ srvDir.api = "no_newLines"
    /\ srvRes.status = 200
    /\ Len(srvRes.newLines) >= 3
    /\ ~ IsNull(srvIn)
    /\ Len(srvIn.lines) > 0

\* the scene a run worked on, and the ids of its roster
Current == IF IsNull(srvIn) THEN createDefaultScene(now) ELSE srvIn

RosterIds == {Current.actors[j].id : j \in 1..Len(Current.actors)}

NamesUnknownActor == 
    \E k \in 1..Len(srvDir.directives) : srvDir.directives[k].actorId \notin RosterIds

\* C11: when a line directive of a Dialogue Generator reply names an actor
\* that is not in the roster, the turn answers an error, so no scene comes
\* back and the caller holds what it held: no metadata, actor update or
\* line of that reply is part of a returned scene.
C11_UnknownActorFailsTurn ==
    (srvDir.path = "primary" /\ NamesUnknownActor) =>
        /\ srvRes.status = 500
        /\ held = srvIn

\* C12: a Dialogue Generator reply with no line directive makes the turn
\* fail with an error and leaves the scene it was given as it was; a
\* fallback turn on a scene without actors succeeds with no new line.
C12_NoLinesFailsEmptyStageSucceeds ==
    /\ (srvDir.path = "primary" /\ Len(srvDir.directives) = 0) =>
           /\ srvRes.status = 500
           /\ srvBody = srvIn
           /\ held = srvIn
    /\ (srvDir.path = "fallback" /\ Len(Current.actors) = 0) =>
           /\ srvRes.status = 200
           /\ srvRes.newLines = << >>

\* the directives the handler works on (line 168), and whether it accepts them
Processed == IF Len(srvDir.directives) > 6 THEN 6 ELSE Len(srvDir.directives)

Acceptable ==
    /\ Len(srvDir.directives) > 0
    /\ \A k \in 1..Processed : srvDir.directives[k].actorId \in RosterIds

Silent(lines) == \A k \in 1..Len(lines) : lines[k].audioUrl = ""

\* C13 as stated: without the Dialogue Generator's key the turn is answered
\* as a failure; without the Speech Synthesizer's key the turn succeeds
\* with an empty audioUrl on every new line.
C13_MissingKeyFailsTurn ==
    srvDir.path # "none" =>
        /\ env.OPENAI_API_KEY # "set" => srvRes.status # 200
        /\ (~ env.ELEVENLABS_API_KEY /\ srvRes.status = 200) => Silent(srvRes.newLines)

\* C13, amended: without the Dialogue Generator's key the generator is not
\* called and the turn falls back and succeeds; without the Speech
\* Synthesizer's key a turn whose lines come from the Dialogue Generator
\* succeeds whenever its directives are accepted, every synthesis call is
\* made and fails, and every new line has an empty audioUrl; the lines of a
\* fallback turn carry the placeholder reference, whatever the keys.
C13_MissingKeyFallsBack ==
    srvDir.path # "none" =>
        /\ env.OPENAI_API_KEY # "set" =>
              /\ srvDir.path = "fallback"
              /\ srvDir.fetches = 0
              /\ srvRes.status = 200
        /\ srvDir.path = "fallback" =>
              \A k \in 1..Len(srvRes.newLines) :
                  srvRes.newLines[k].audioUrl =
                      generateAudioUrl(srvRes.newLines[k].id,
                          FindActor(Current.actors, srvRes.newLines[k].actorId).voiceId)
        /\ (~ env.ELEVENLABS_API_KEY /\ srvDir.path = "primary") =>
              /\ srvRes.status = 200 <=> Acceptable
              /\ srvRes.status = 200 =>
                    /\ Silent(srvRes.newLines)
                    /\ \A k \in 1..Len(srvDir.synth) :
                          srvDir.synth[k].called /\ srvDir.synth[k].result.threw

C13_Witness ==
    /\ env.OPENAI_API_KEY = "placeholder"
    /\ ~ env.ELEVENLABS_API_KEY
    /\ srvDir.path = "fallback"
    /\ srvRes.status = 200
    /\ Len(srvRes.newLines) = 4
    /\ ~ IsNull(srvIn)
    /\ Len(srvIn.lines) > 0

\* C14: in a turn whose lines come from the Dialogue Generator a synthesis
\* call is made for every new line, whatever order the calls settle in the
\* new lines are the directives' lines in the directives' order, a line
\* whose call failed has an empty audioUrl and a line whose call succeeded
\* has the audio of its call, and the turn succeeds whichever calls fail.
C14_SpeechFanOut ==
    srvDir.path = "primary" =>
        /\ srvRes.status = 200 <=> Acceptable
        /\ srvRes.status = 200 =>
              /\ Len(srvRes.newLines) = Processed
              /\ Len(srvDir.synth) = Processed
              /\ \A k \in 1..Processed :
                    /\ srvDir.synth[k].called
                    /\ srvDir.synth[k].text = srvDir.directives[k].text
                    /\ srvRes.newLines[k].id = LineId(now, k - 1)
                    /\ srvRes.newLines[k].actorId = srvDir.directives[k].actorId
                    /\ srvRes.newLines[k].text = srvDir.directives[k].text
                    /\ srvRes.newLines[k].audioUrl =
                          IF env.ELEVENLABS_API_KEY /\ srvDir.tts.out[k] = "ok"
                          THEN AudioData ELSE ""

C14_Witness ==
    /\ srvDir.path = "primary"
    /\ srvRes.status = 200
    /\ env.ELEVENLABS_API_KEY
    /\ srvDir.tts.order = Backwards
    /\ srvDir.tts.out[1] = "fail"
    /\ srvDir.tts.out[3] = "ok"
    /\ Len(srvRes.newLines) = 3
    /\ srvRes.newLines[2].text # srvRes.newLines[3].text

\* C15: the fallback generator returns no line for a scene without actors,
\* and between 2 and 4 lines, each of an actor of the roster, otherwise.
C15_FallbackLineCount ==
    srvDir.path = "fallback" =>
        IF Len(Current.actors) = 0
        THEN srvRes.newLines = << >>
        ELSE /\ Len(srvRes.newLines) >= 2
             /\ Len(srvRes.newLines) <= 4
             /\ \A k \in 1..Len(srvRes.newLines) : srvRes.newLines[k].actorId \in RosterIds

C15_Witness ==
    /\ srvDir.path = "fallback"
    /\ Len(srvRes.newLines) = 4
    /\ {srvRes.newLines[k].actorId : k \in 1..4} = RosterIds

\* C16: "Make it horror" sent without a scene gives, on either path, a
\* scene of genre horror whose roster is the three default actors.
C16_HorrorFromNothing ==
    (srvDir.userCommand = "Make it horror" /\ IsNull(srvIn)) =>
        /\ srvRes.status = 200
        /\ srvRes.sceneState.genre = "horror"
        /\ [j \in 1..Len(srvRes.sceneState.actors) |-> srvRes.sceneState.actors[j].id]
              = <<"actor-1", "actor-2", "actor-3">>

\* C17: the summary of a returned scene is at most 800 characters long.
C17_SummaryAtMost800 ==
    srvRes.status = 200 => Len(srvRes.sceneState.summary) <= 800

\* C18 as stated: when there are no lines, the summary is the fixed phrase.
C18_NoLinesGivesPhrase ==
    (srvRes.status = 200 /\ Len(srvRes.sceneState.lines) = 0) =>
        srvRes.sceneState.summary = "Scene is beginning."

\* C18, amended: when there are no lines, the summary is the previous
\* summary if that is not empty, and the fixed phrase if it is.
C18_NoLinesKeepsSummary ==
    (srvRes.status = 200 /\ Len(srvRes.sceneState.lines) = 0) =>
        srvRes.sceneState.summary =
            IF Current.summary # "" THEN Current.summary ELSE "Scene is beginning."

C18_Witness ==
    /\ srvRes.status = 200
    /\ Len(srvRes.sceneState.lines) = 0
    /\ Len(srvIn.summary) > 0
    /\ srvRes.sceneState.summary = srvIn.summary

ToneSentences ==
    {toneDescriptions(t) : t \in {"tense", "positive", "somber", "inquisitive"}}

\* the tone sentences among the sentences written for the last run
ToneWritten ==
    LET parts == summaryParts(Current.summary, srvRes.sceneState.lines,
                              srvRes.sceneState.actors)
    IN {parts[i] : i \in 1..Len(parts)} \cap ToneSentences

HasWordOf(words) ==
    \E i \in 1..Len(srvRes.sceneState.lines) :
        /\ i > Len(srvRes.sceneState.lines) - 10
        /\ Words(srvRes.sceneState.lines[i].text) \cap words # {}

\* C19: of the sentences the summarizer writes about the last ten lines,
\* the one on tone is the tense one when an anger word occurs, else the
\* positive one when a joy word occurs, else the somber one when a sorrow
\* word occurs, else the inquisitive one when a question word occurs, and
\* there is none when no such word occurs.
C19_TonePriority ==
    (srvRes.status = 200 /\ Len(srvRes.sceneState.lines) > 0) =>
        ToneWritten =
            IF HasWordOf(AngerWords) THEN {"The conversation has become tense."}
            ELSE IF HasWordOf(JoyWords) THEN {"The mood is positive."}
            ELSE IF HasWordOf(SorrowWords) THEN {"The atmosphere is somber."}
            ELSE IF HasWordOf(QuestionWords) THEN {"Questions are being raised."}
            ELSE {}

\* an anger word in the lines of an earlier turn, a joy word in the new ones
C19_Witness ==
    /\ srvRes.status = 200
    /\ HasWordOf(AngerWords)
    /\ \E k \in 1..Len(srvRes.newLines) : Words(srvRes.newLines[k].text) \cap JoyWords # {}
    /\ \A k \in 1..Len(srvRes.newLines) : Words(srvRes.newLines[k].text) \cap AngerWords = {}

\* C20: on either path a synthesis call with the actor's voice is made for
\* every new line, and the line's audioUrl is the audio reference that
\* call returned, or empty.
C20_EveryLineIsSynthesized ==
    srvRes.status = 200 =>
        /\ Len(srvDir.synth) = Len(srvRes.newLines)
        /\ \A k \in 1..Len(srvRes.newLines) :
              /\ srvDir.synth[k].called
              /\ srvDir.synth[k].voiceId =
                    FindActor(srvRes.sceneState.actors, srvRes.newLines[k].actorId).voiceId
              /\ srvRes.newLines[k].audioUrl \in {"", AudioData, AudioTiny}

RECURSIVE SumOfDeltas(_, _)
SumOfDeltas(directives, k) ==
    IF k = 0 THEN 0 ELSE SumOfDeltas(directives, k - 1) + directives[k].beatDelta

\* C22: in a turn whose lines come from the Dialogue Generator the k-th new
\* line's beatIndex is the largest beatIndex of the lines the scene had (0
\* when it had none, or there was no scene) plus the beatDelta values of
\* directives 1..k, the k-th included.
C22_RunningBeatCounter ==
    (srvDir.path = "primary" /\ srvRes.status = 200) =>
        \A k \in 1..Len(srvRes.newLines) :
            srvRes.newLines[k].beatIndex =
                MaxBeat(InLines) + SumOfDeltas(srvDir.directives, k)

\* the scene had lines of beat 1; the first directive stays in that beat and
\* the second opens the next one
C22_Witness ==
    /\ srvDir.path = "primary"
    /\ srvRes.status = 200
    /\ MaxBeat(InLines) = 1
    /\ Len(srvRes.newLines) = 2
    /\ srvDir.directives[1].beatDelta = 0
    /\ srvDir.directives[2].beatDelta = 1
    /\ srvRes.newLines[1].beatIndex = 1
    /\ srvRes.newLines[2].beatIndex = 2

\* C23: in a turn whose lines come from the Dialogue Generator the k-th
\* line is synthesized in the language the k-th directive declares, and in
\* its actor's language (after the reply's actor updates) when the
\* directive declares none, also when directives share actorId and text.
C23_LanguageOfOwnDirective ==
    (srvDir.path = "primary" /\ srvRes.status = 200) =>
        \A k \in 1..Len(srvDir.synth) :
            srvDir.synth[k].language =
                IF DirectiveLanguage(srvDir.directives[k]) # ""
                THEN convertLanguage(DirectiveLanguage(srvDir.directives[k]))
                ELSE FindActor(srvRes.sceneState.actors,
                               srvDir.directives[k].actorId).language

\* the update of the reply for the actor at place i of the roster, if any
UpdateFor(i) == MapGet(srvDir.updates, Current.actors[i].id)

SameButLanguageAndStyle(a, b) ==
    /\ a.id = b.id
    /\ a.name = b.name
    /\ a.role = b.role
    /\ a.voiceId = b.voiceId

\* C24: the roster a turn returns has the actors of the roster it was
\* given, in the same order and with the same id, name, role and voiceId;
\* in a turn whose lines come from the Dialogue Generator an actor whose id
\* an actor update names has the update's language and style and every other
\* actor is unchanged, and a fallback turn returns the roster unchanged.
C24_RosterIsKept ==
    srvRes.status = 200 =>
        /\ Len(srvRes.sceneState.actors) = Len(Current.actors)
        /\ \A i \in 1..Len(Current.actors) :
              /\ SameButLanguageAndStyle(srvRes.sceneState.actors[i], Current.actors[i])
              /\ IF IsNull(UpdateFor(i))
                 THEN srvRes.sceneState.actors[i] = Current.actors[i]
                 ELSE /\ srvRes.sceneState.actors[i].language = UpdateFor(i).language
                      /\ srvRes.sceneState.actors[i].style = UpdateFor(i).style
        /\ srvDir.path = "fallback" => srvRes.sceneState.actors = Current.actors

C24_Witness ==
    /\ srvDir.path = "primary"
    /\ srvRes.status = 200
    /\ \E k \in 1..Len(srvDir.updates) : srvDir.updates[k].id \notin RosterIds
    /\ \E i \in 1..Len(Current.actors) :
          /\ ~ IsNull(UpdateFor(i))
          /\ srvRes.sceneState.actors[i] # Current.actors[i]

\* the digest of the last run: the sentences written about the last ten lines
Digest ==
    Join(summaryParts(Current.summary, srvRes.sceneState.lines, srvRes.sceneState.actors))

\* C28: when the scene has lines, its previous summary is not empty (it has
\* a character that is not white space) and the digest is longer than 50
\* characters, the new summary is the previous summary, a space and the
\* digest, cut to 800 characters; so a turn on a scene whose summary is 800
\* characters long returns that summary.
C28_SummaryIsPrefixedAndCut ==
    srvRes.status = 200 =>
        /\ ( /\ Len(srvRes.sceneState.lines) > 0
             /\ ~ IsBlank(Current.summary)
             /\ Len(Digest) > 50 )
           => srvRes.sceneState.summary =
                  Substring(Current.summary \o " " \o Digest, 800)
        /\ Len(Current.summary) = 800 => srvRes.sceneState.summary = Current.summary

C28_Witness ==
    /\ srvRes.status = 200
    /\ Len(Current.summary) = 800
    /\ Len(srvRes.sceneState.lines) > Len(Current.lines)
    /\ Len(Digest) > 50
    /\ srvRes.sceneState.summary = Current.summary

----------------------------------------------------------------------------
\* Properties of the page component (Spec)

IsPrefix(before, after) ==
    /\ Len(before) <= Len(after)
    /\ SubSeq(after, 1, Len(before)) = before

\* C4: every turn request carries the scene most recently returned, so a
\* successful turn only appends to the scene the page shows: no line shown
\* after one turn is missing after a later one.
C4_SceneOnlyGrows ==
    [][ /\ \A r \in requests' : r.body = sceneStateRef'
        /\ ~ IsNull(sceneState) =>
              /\ ~ IsNull(sceneState')
              /\ IsPrefix(sceneState.lines, sceneState'.lines) ]_vars

\* C5: once playback is aborted while a loop is at line i, that loop goes
\* to no line after i (it marks none current, makes no audio element for
\* one) and puts nothing into the active audio handle.
C5_AbortedLoopStops ==
    [][ \A l \in DOMAIN loops :
            loops[l].cutoff =>
                /\ loops'[l].idx = loops[l].idx
                /\ loops'[l].marked = loops[l].marked
                /\ activeAudioRef' = << >> \/ activeAudioRef'[1] # l ]_vars

\* C6: at most one line's audio is playing, and the active audio handle,
\* when it is set, refers to the element of the line that is playing.
C6_OneAudioAtATime ==
    /\ Cardinality({l \in DOMAIN loops : loops[l].audio = "playing"}) <= 1
    /\ \A l \in DOMAIN loops :
          (loops[l].audio = "playing" /\ activeAudioRef # << >>)
              => activeAudioRef = <<l, loops[l].idx>>

\* C7: an auto-continue that was pending when the user sent a command of
\* their own never issues a continue command.
C7_SupersededTimerIsSilent ==
    \A r \in requests : ~ (r.by.kind = "timer" /\ r.by.superseded)

\* C8: at most one turn request is in flight at any time.
C8_OneRequestInFlight == Cardinality(requests) <= 1

\* a request is in flight, playback of the turn before it has run to its end
\* and armed its timer, and the abort flag is down again
C8_Witness ==
    /\ requests # {}
    /\ timers # {}
    /\ ~ aborted

Ids(lines) == [k \in 1..Len(lines) |-> lines[k].id]

\* C9: when a turn returns three lines of which the second has no audio,
\* the playback that runs to its end has marked the three lines current in
\* order, and leaves the page not playing, without current line or handle.
C9_SilentLineIsVisited ==
    [][ \A l \in DOMAIN loops :
            ( /\ loops[l].pc # "done"
              /\ loops'[l].pc = "done"
              /\ ~ loops[l].cutoff
              /\ ~ aborted
              /\ Len(loops[l].newLines) = 3
              /\ loops[l].newLines[2].audioUrl = "" )
            => /\ loops'[l].marked = Ids(loops[l].newLines)
               /\ ~ isPlaying'
               /\ currentlyPlayingLineId' = ""
               /\ activeAudioRef' = << >> ]_vars

\* the words of lines 243-245
StopWords == {"stop", "end", "pause"}

HasStopWord(command) == \E w \in StopWords : Includes(command, w)

\* C30: a command that contains "stop", "end" or "pause" never becomes a
\* turn request; handling it leaves the requests, the scene and the loading
\* flag as they were, switches auto-continue off and stops playback.
C30_StopCommandSendsNothing ==
    [][ /\ \A r \in requests' : ~ HasStopWord(r.userCommand)
        /\ \A command \in TypedCommands \cup QUICK_PROMPTS :
              ( /\ HasStopWord(command)
                /\ NotLoading
                /\ handleSendDirection(command, sceneState, autoContinue, User,
                                       Supersede(timers), Supersede(looseTimers)) )
              => /\ UNCHANGED <<requests, sent, sceneState, sceneStateRef, isLoading>>
                 /\ ~ autoContinue'
                 /\ aborted'
                 /\ ~ isPlaying'
                 /\ currentlyPlayingLineId' = ""
                 /\ activeAudioRef' = << >>
                 /\ autoContinueTimeoutRef' = 0 ]_vars

\* a stop command was typed on a page that has sent nothing yet (the Stop
\* button is not shown there): playback is aborted, auto-continue is off
\* and there is still no request
C30_Witness ==
    /\ sent = 0
    /\ requests = {}
    /\ aborted
    /\ ~ autoContinue
    /\ IsNull(sceneState)

\* C25: a continue command is issued only when auto-continue is on and
\* playback was not aborted at the moment the pause ends; so after the user
\* switched auto-continue off, while the lines played or during the pause,
\* no timer issues one.
C25_ContinueNeedsAutoContinue ==
    [][ \A r \in requests' \ requests :
            r.by.kind = "timer" => (autoContinue /\ ~ aborted) ]_vars

\* C26: from an explicit stop until the user's next command (or their
\* switching auto-continue on again) the page is not playing, has no current
\* line, no active audio handle and no pending auto-continue timer,
\* auto-continue is off, and no turn request is issued.
C26_StopHolds ==
    [][ stopped' =>
          /\ ~ isPlaying'
          /\ currentlyPlayingLineId' = ""
          /\ activeAudioRef' = << >>
          /\ timers' = {}
          /\ looseTimers' = {}
          /\ ~ autoContinue'
          /\ stopped => requests' \subseteq requests ]_vars

\* C29: a turn request that fails leaves the scene as it was, starts no
\* playback and puts the loading flag down, and the next turn request
\* carries that same scene.
C29_FailureLeavesScene ==
    [][ /\ (failed' /\ ~ failed) =>
              /\ UNCHANGED <<sceneState, sceneStateRef, loops, isPlaying>>
              /\ ~ isLoading'
        /\ failed => \A r \in requests' \ requests : r.body = sceneState ]_vars

\* C27: every playback loop reaches its cleanup, which leaves the page not
\* playing, without current line or audio handle; the wait after a failed
\* line ends at the next line or, after the last line or an abort, at the
\* cleanup.
C27_PlaybackEnds ==
    /\ \A l \in 1..MaxSends :
          (l \in DOMAIN loops) ~> (l \in DOMAIN loops /\ loops[l].pc = "done")
    /\ [][ \A l \in DOMAIN loops :
              /\ (loops[l].pc # "done" /\ loops'[l].pc = "done") =>
                    /\ ~ isPlaying'
                    /\ currentlyPlayingLineId' = ""
                    /\ activeAudioRef' = << >>
              /\ (loops[l].pc = "errdwell" /\ loops'[l].pc # "errdwell") =>
                    \/ loops'[l].pc = "done"
                    \/ /\ loops'[l].idx = loops[l].idx + 1
                       /\ loops'[l].pc \in {"await", "dwell"} ]_vars

\* the first line of a loop has failed, lines remain and playback was not
\* aborted: the loop is in the wait of line 154
C27_Witness ==
    \E l \in DOMAIN loops :
        /\ loops[l].pc = "errdwell"
        /\ loops[l].idx = 1
        /\ Len(loops[l].lines) > 1
        /\ ~ aborted

====
